---- MODULE Spec2Model ----
(***************************************************************************)
(* Model of the job-application assistant: the job repository              *)
(* (src/src/job_database.py), the fit scoring and tailoring engine         *)
(* (src/src/resume_tailor.py, categorize_jobs) and the profile store       *)
(* (src/src/profile_manager.py).                                           *)
(*                                                                         *)
(* Python dicts are functions whose DOMAIN is the set of keys present;     *)
(* Python strings that are searched are sequences of one-character         *)
(* strings; Python None / SQL NULL is the value None.                      *)
(***************************************************************************)
EXTENDS Integers, Sequences, FiniteSets, TLC

VARIABLES
    jobs,       \* the rows of table jobs, in insertion order
    dbLast,     \* what the last repository call did
    tIn,        \* inputs of the current engine call
    tOut,       \* outcome of the current engine call
    files,      \* profile store: profile name -> file content
    pLast,      \* what the last profile-store / engine-construction call did
    session,    \* where main() of src/main.py stands
    writers     \* the processes running insert_jobs on the store, each at its step

vars == <<jobs, dbLast, tIn, tOut, files, pLast, session, writers>>

dbVars == <<jobs, dbLast>>
engineVars == <<tIn, tOut>>
profileVars == <<files, pLast>>

None == "<None>"

\* main() is not running.
NoSession == [pc |-> "none", profile |-> None, choice |-> None, exc |-> None,
              open |-> {}]

\* No process is running insert_jobs.
NoWriters == <<>>

(***************************************************************************)
(* Bounds of the model.                                                    *)
(***************************************************************************)
MaxRows == 3
MaxBatch == 2

(***************************************************************************)
(* Python dict helpers.                                                    *)
(***************************************************************************)
DictGet(d, k) == IF k \in DOMAIN d THEN d[k] ELSE None

SetDefault(d, k, v) == IF k \in DOMAIN d THEN d ELSE d @@ (k :> v)

EmptyDict == [k \in {} |-> None]

(***************************************************************************)
(* Job repository: src/src/job_database.py                                 *)
(***************************************************************************)

\* SQL "a = ?" : a comparison with NULL is never true.
SqlEq(a, b) == a # None /\ b # None /\ a = b

\* Text values are sequences of one-character strings.
sNA == <<"N", "/", "A">>

\* job_data after the setdefault calls of insert_job (raw_data is the
\* snapshot of the dict as it is when that line runs).
WithDefaults(job_data) ==
    LET d1 == SetDefault(job_data, "company", sNA)
        d2 == SetDefault(d1, "role", sNA)
        d3 == SetDefault(d2, "location", sNA)
        d4 == SetDefault(d3, "link", sNA)
        d5 == SetDefault(d4, "date_posted", sNA)
        d6 == SetDefault(d5, "original_category", sNA)
        d7 == SetDefault(d6, "fit_score", -1)
        d8 == SetDefault(d7, "fit_category", "unclassified")
        d9 == SetDefault(d8, "status", "new")
    IN  SetDefault(d9, "raw_data", d9)

Columns == {"company", "role", "location", "link", "date_posted",
            "original_category", "fit_score", "fit_category", "status",
            "raw_data"}

\* company TEXT NOT NULL, role TEXT NOT NULL
NotNullOk(d) == d["company"] # None /\ d["role"] # None

\* insert_job: the row appended (id is AUTOINCREMENT: no row is ever deleted).
NewRow(rows, job_data) ==
    LET d == WithDefaults(job_data)
    IN  [c \in Columns \cup {"id"} |-> IF c = "id" THEN Len(rows) + 1 ELSE d[c]]

\* A plausible slip: the query names the company column instead of role.
ExistingJobByCompany(rows, job_data) ==
    \E i \in 1..Len(rows) :
        /\ SqlEq(rows[i]["link"], DictGet(job_data, "link"))
        /\ SqlEq(rows[i]["company"], DictGet(job_data, "role"))

\* SELECT id FROM jobs WHERE link = ? AND role = ?  with (job.get('link'), job.get('role'))
ExistingJob(rows, job_data) ==
    \E i \in 1..Len(rows) :
        /\ SqlEq(rows[i]["link"], DictGet(job_data, "link"))
        /\ SqlEq(rows[i]["role"], DictGet(job_data, "role"))

\* insert_jobs: the loop over jobs_list from position i on (the dicts of
\* jobs_list are distinct objects).  The result is the
\* rows, the count, and whether insert_job raised (sqlite3.IntegrityError),
\* which ends the loop with the rows committed so far.
RECURSIVE InsertJobsLoop(_, _, _, _)
InsertJobsLoop(rows, jobs_list, i, inserted_count) ==
    IF i > Len(jobs_list)
    THEN [rows |-> rows, count |-> inserted_count, raised |-> FALSE]
    ELSE IF ExistingJob(rows, jobs_list[i])
    THEN InsertJobsLoop(rows, jobs_list, i + 1, inserted_count)
    ELSE IF ~NotNullOk(WithDefaults(jobs_list[i]))
    THEN [rows |-> rows, count |-> inserted_count, raised |-> TRUE]
    ELSE InsertJobsLoop(Append(rows, NewRow(rows, jobs_list[i])), jobs_list,
                        i + 1, inserted_count + 1)

InsertJobsResult(rows, jobs_list) == InsertJobsLoop(rows, jobs_list, 1, 0)

\* The job dicts handed to insert_jobs: link and role may be absent, role
\* may be None (which the NOT NULL column refuses).
LinkVals == {"absent", "l1"}
RoleVals == {"absent", "null", "r1"}
DateVals == {"d1", "d2"}

sL1 == <<"l", "1">>
sR1 == <<"r", "1">>
sD1 == <<"d", "1">>
sD2 == <<"d", "2">>

MkJob(l, r, d) ==
    LET a == IF l = "absent" THEN EmptyDict ELSE ("link" :> sL1)
        b == IF r = "absent" THEN a
             ELSE a @@ ("role" :> (IF r = "null" THEN None ELSE sR1))
    IN  b @@ ("date_posted" :> (IF d = "d1" THEN sD1 ELSE sD2))

\* The jobs of a call, by what each one carries.
JobInputs == [l : LinkVals, r : RoleVals, d : DateVals]

Batches == UNION {[1..n -> JobInputs] : n \in 0..MaxBatch}

JobsOf(batch) == [i \in 1..Len(batch) |-> MkJob(batch[i].l, batch[i].r, batch[i].d)]

\* The (link, role) pair a job is stored under.
StoredPair(job_data) ==
    <<WithDefaults(job_data)["link"], WithDefaults(job_data)["role"]>>

RowPair(row) == <<row["link"], row["role"]>>

\* Every job of jobs_list has its (link, role) pair, neither part None, in rows.
AllPairsStored(rows, jobs_list) ==
    \A i \in 1..Len(jobs_list) :
        /\ StoredPair(jobs_list[i])[1] # None
        /\ StoredPair(jobs_list[i])[2] # None
        /\ \E k \in 1..Len(rows) : RowPair(rows[k]) = StoredPair(jobs_list[i])

NoCall == [op |-> "none"]

InsertJobs(jobs_list) ==
    /\ Len(jobs) + Len(jobs_list) <= MaxRows
    /\ LET res == InsertJobsResult(jobs, jobs_list) IN
       /\ jobs' = res.rows
       /\ dbLast' = [op |-> "insert_jobs",
                     before |-> Len(jobs),
                     returned |-> ~res.raised,
                     count |-> res.count,
                     allStored |-> AllPairsStored(jobs, jobs_list),
                     jobs_list |-> jobs_list]
    /\ UNCHANGED <<writers, session, engineVars, profileVars>>

\* An UPDATE of status without its WHERE clause.
UpdateJobStatusRowsNoWhere(rows, job_id, new_status) ==
    [i \in 1..Len(rows) |-> [rows[i] EXCEPT !["status"] = new_status]]

\* update_job_status: UPDATE jobs SET status = ? WHERE id = ?
UpdateJobStatusRows(rows, job_id, new_status) ==
    [i \in 1..Len(rows) |->
        IF rows[i]["id"] = job_id
        THEN [rows[i] EXCEPT !["status"] = new_status]
        ELSE rows[i]]

\* update_job_fit_score_and_category:
\* UPDATE jobs SET fit_score = ?, fit_category = ? WHERE id = ?
UpdateJobFitRows(rows, job_id, fit_score, fit_category) ==
    [i \in 1..Len(rows) |->
        IF rows[i]["id"] = job_id
        THEN [rows[i] EXCEPT !["fit_score"] = fit_score,
                             !["fit_category"] = fit_category]
        ELSE rows[i]]

UpdateJobStatus(job_id, new_status) ==
    /\ jobs' = UpdateJobStatusRows(jobs, job_id, new_status)
    /\ dbLast' = [op |-> "update_job_status", job_id |-> job_id,
                  new_status |-> new_status, before |-> Len(jobs)]
    /\ UNCHANGED <<writers, session, engineVars, profileVars>>

UpdateJobFitScoreAndCategory(job_id, fit_score, fit_category) ==
    /\ jobs' = UpdateJobFitRows(jobs, job_id, fit_score, fit_category)
    /\ dbLast' = [op |-> "update_job_fit_score_and_category", job_id |-> job_id,
                  fit_score |-> fit_score, fit_category |-> fit_category,
                  before |-> Len(jobs)]
    /\ UNCHANGED <<writers, session, engineVars, profileVars>>

(***************************************************************************)
(* Text: Python str as a sequence of one-character strings.                *)
(***************************************************************************)
LowerOf ==
    [c \in {"A","B","C","D","E","F","G","H","I","J","K","L","M","N","O","P",
            "Q","R","S","T","U","V","W","X","Y","Z"} |->
        CASE c = "A" -> "a" [] c = "B" -> "b" [] c = "C" -> "c" [] c = "D" -> "d"
          [] c = "E" -> "e" [] c = "F" -> "f" [] c = "G" -> "g" [] c = "H" -> "h"
          [] c = "I" -> "i" [] c = "J" -> "j" [] c = "K" -> "k" [] c = "L" -> "l"
          [] c = "M" -> "m" [] c = "N" -> "n" [] c = "O" -> "o" [] c = "P" -> "p"
          [] c = "Q" -> "q" [] c = "R" -> "r" [] c = "S" -> "s" [] c = "T" -> "t"
          [] c = "U" -> "u" [] c = "V" -> "v" [] c = "W" -> "w" [] c = "X" -> "x"
          [] c = "Y" -> "y" [] c = "Z" -> "z"]

\* str.lower()
Lower(s) == [i \in 1..Len(s) |-> IF s[i] \in DOMAIN LowerOf THEN LowerOf[s[i]] ELSE s[i]]

\* sep.join(list)
RECURSIVE Join(_, _)
Join(sep, list) ==
    IF Len(list) = 0 THEN <<>>
    ELSE IF Len(list) = 1 THEN list[1]
    ELSE list[1] \o sep \o Join(sep, Tail(list))

\* needle in hay
Contains(needle, hay) ==
    \E i \in 0..(Len(hay) - Len(needle)) :
        SubSeq(hay, i + 1, i + Len(needle)) = needle

Whitespace == {" ", "\t", "\n"}

\* str.split(): the maximal runs of non-whitespace characters, in order.
\* cur is the token being read.
RECURSIVE SplitFrom(_, _, _)
SplitFrom(s, i, cur) ==
    IF i > Len(s)
    THEN (IF cur = <<>> THEN <<>> ELSE <<cur>>)
    ELSE IF s[i] \in Whitespace
    THEN (IF cur = <<>> THEN <<>> ELSE <<cur>>) \o SplitFrom(s, i + 1, <<>>)
    ELSE SplitFrom(s, i + 1, Append(cur, s[i]))

Split(s) == SplitFrom(s, 1, <<>>)

\* str.strip(): leading and trailing whitespace removed.
RECURSIVE LStrip(_)
LStrip(s) ==
    IF Len(s) > 0 /\ s[1] \in Whitespace THEN LStrip(Tail(s)) ELSE s

RECURSIVE RStrip(_)
RStrip(s) ==
    IF Len(s) > 0 /\ s[Len(s)] \in Whitespace
    THEN RStrip(SubSeq(s, 1, Len(s) - 1)) ELSE s

Strip(s) == RStrip(LStrip(s))

(***************************************************************************)
(* Fit scoring and tailoring engine: src/src/resume_tailor.py              *)
(***************************************************************************)

\* _calculate_keyword_score: the loop over keywords from position i on.
RECURSIVE KeywordScoreLoop(_, _, _, _)
KeywordScoreLoop(text_content, keywords, i, score) ==
    IF i > Len(keywords) THEN score
    ELSE KeywordScoreLoop(text_content, keywords, i + 1,
                          IF Contains(Lower(keywords[i]), text_content)
                          THEN score + 1 ELSE score)

\* A plausible slip: the joined text is not lowercased.
CalculateKeywordScoreNoLower(text_list, keywords) ==
    KeywordScoreLoop(Join(<<" ">>, text_list), keywords, 1, 0)

CalculateKeywordScore(text_list, keywords) ==
    KeywordScoreLoop(Lower(Join(<<" ">>, text_list)), keywords, 1, 0)

\* _extract_keywords_from_job_description
MinKeywordLen == 2

ExtractKeywords(job_description) ==
    LET words == Split(job_description)
        keep == SelectSeq(words, LAMBDA w : Len(w) > MinKeywordLen)
    IN  [i \in 1..Len(keep) |-> Lower(keep[i])]

\* A value json.load can return for a profile file, or Python None: NoData is
\* None (the JSON text null), Obj(d) is the dict d.
NoData == [t |-> "None"]

Obj(d) == [t |-> "dict", d |-> d]

\* Python truthiness of such a value: None and the empty dict are falsy.
Falsy(v) == v.t = "None" \/ DOMAIN v.d = {}

\* ResumeTailor.__init__ on the pair (data, error) load_profile returned.
ResumeTailorInit(loaded) ==
    IF loaded.error # None THEN [raised |-> "ValueError"]
    ELSE IF Falsy(loaded.data) THEN [raised |-> "ValueError"]
    ELSE [raised |-> None, profile_data |-> loaded.data.d]

\* exp.get("description", []) and the like
GetList(d, k) == IF k \in DOMAIN d THEN d[k] ELSE <<>>

\* list.sort(key=lambda x: x[0], reverse=True): stable, highest score first.
\* Insert x into an already sorted list behind every element whose score is
\* not smaller.
RECURSIVE InsertSorted(_, _)
InsertSorted(sorted, x) ==
    IF sorted = <<>> THEN <<x>>
    ELSE IF sorted[1][1] >= x[1] THEN <<sorted[1]>> \o InsertSorted(Tail(sorted), x)
    ELSE <<x>> \o sorted

RECURSIVE SortByScoreDesc(_)
SortByScoreDesc(scored) ==
    IF scored = <<>> THEN <<>>
    ELSE InsertSorted(SortByScoreDesc(SubSeq(scored, 1, Len(scored) - 1)),
                      scored[Len(scored)])

KeepAllWork == 3
KeepAllProjects == 2

ExpText(exp) ==
    <<exp["title"], exp["company"]>> \o GetList(exp, "description")
        \o GetList(exp, "technologies")

ProjText(proj) ==
    <<proj["name"]>> \o GetList(proj, "description") \o GetList(proj, "technologies")

TailorWorkExperience(profile_data, job_keywords) ==
    LET work == profile_data["work_experience"]
        scored_experiences ==
            SortByScoreDesc([i \in 1..Len(work) |->
                <<CalculateKeywordScore(ExpText(work[i]), job_keywords), work[i]>>])
        kept == SelectSeq(scored_experiences,
                    LAMBDA x : x[1] > 0 \/ Len(scored_experiences) <= KeepAllWork)
    IN  [i \in 1..Len(kept) |-> kept[i][2]]

TailorProjects(profile_data, job_keywords) ==
    LET projects == profile_data["projects"]
        scored_projects ==
            SortByScoreDesc([i \in 1..Len(projects) |->
                <<CalculateKeywordScore(ProjText(projects[i]), job_keywords), projects[i]>>])
        kept == SelectSeq(scored_projects,
                    LAMBDA x : x[1] > 0 \/ Len(scored_projects) <= KeepAllProjects)
    IN  [i \in 1..Len(kept) |-> kept[i][2]]

\* The attributes a collections.defaultdict offers: tailored_resume["skills"]
\* is a defaultdict(list), and the skills loop calls .insert / .append on it.
DefaultDictAttrs ==
    {"clear", "copy", "default_factory", "fromkeys", "get", "items", "keys",
     "pop", "popitem", "setdefault", "update", "values"}

SkillMatches(skill, job_keywords) ==
    \E k \in 1..Len(job_keywords) : Contains(Lower(job_keywords[k]), Lower(skill))

\* The method the loop body calls on tailored_resume["skills"] for one skill.
SkillCall(skill, job_keywords) ==
    IF SkillMatches(skill, job_keywords) THEN "insert" ELSE "append"

\* The skills loop: the first skill it visits calls a method; a method the
\* defaultdict does not have raises AttributeError.  profile_data["skills"] is
\* an ordered mapping: a sequence of <<category, skills_list>>.
SkillsLoopRaises(profile_data, job_keywords) ==
    \E c \in 1..Len(profile_data["skills"]) :
        \E s \in 1..Len(profile_data["skills"][c][2]) :
            SkillCall(profile_data["skills"][c][2][s], job_keywords) \notin DefaultDictAttrs

\* tailor_resume.  The dict literal reads personal_info and education, the
\* loops read work_experience, projects and skills: a key the loaded profile
\* lacks raises KeyError.
TailorKeys == {"personal_info", "education", "work_experience", "projects", "skills"}

TailorResume(profile_data, job_description) ==
    LET job_keywords == ExtractKeywords(job_description) IN
    IF ~(TailorKeys \subseteq DOMAIN profile_data)
    THEN [raised |-> "KeyError"]
    ELSE IF SkillsLoopRaises(profile_data, job_keywords)
    THEN [raised |-> "AttributeError"]
    ELSE [raised |-> None,
          tailored_resume |->
             [personal_info |-> profile_data["personal_info"],
              education |-> profile_data["education"],
              work_experience |-> TailorWorkExperience(profile_data, job_keywords),
              projects |-> TailorProjects(profile_data, job_keywords),
              skills |-> EmptyDict]]

(***************************************************************************)
(* categorize_jobs: src/src/job_database.py                                *)
(***************************************************************************)
\* if job.get(k): the key is present and its text is not empty.
JobHas(job, k) == k \in DOMAIN job /\ job[k] # <<>>

JobDescriptionParts(job) ==
    (IF JobHas(job, "role") THEN <<job["role"]>> ELSE <<>>)
        \o (IF JobHas(job, "company") THEN <<job["company"]>> ELSE <<>>)

RECURSIVE SumScores(_, _, _)
SumScores(texts, job_keywords, i) ==
    IF i > Len(texts) THEN 0
    ELSE CalculateKeywordScore(texts[i], job_keywords)
            + SumScores(texts, job_keywords, i + 1)

\* A plausible slip: the entries are scored on the text tailor_resume uses,
\* which includes titles, companies and project names.
ProfileScoreWithTitles(profile_data, job_keywords) ==
    LET skills == profile_data["skills"]
        work == profile_data["work_experience"]
        projects == profile_data["projects"]
    IN  SumScores([c \in 1..Len(skills) |-> skills[c][2]], job_keywords, 1)
          + SumScores([i \in 1..Len(work) |-> ExpText(work[i])], job_keywords, 1)
          + SumScores([i \in 1..Len(projects) |-> ProjText(projects[i])], job_keywords, 1)

ProfileScore(profile_data, job_keywords) ==
    LET skills == profile_data["skills"]
        work == profile_data["work_experience"]
        projects == profile_data["projects"]
    IN  SumScores([c \in 1..Len(skills) |-> skills[c][2]], job_keywords, 1)
          + SumScores([i \in 1..Len(work) |->
                GetList(work[i], "description") \o GetList(work[i], "technologies")],
                job_keywords, 1)
          + SumScores([i \in 1..Len(projects) |->
                GetList(projects[i], "description") \o GetList(projects[i], "technologies")],
                job_keywords, 1)

\* def categorize_jobs(..., high_threshold=5, medium_threshold=2)
DefaultHighThreshold == 5
DefaultMediumThreshold == 2

\* A plausible slip: the boundary score falls into the lower category.
FitCategoryStrict(score, high_threshold, medium_threshold) ==
    IF score > high_threshold THEN "High Fit"
    ELSE IF score > medium_threshold THEN "Medium Fit"
    ELSE "Low Fit"

FitCategory(score, high_threshold, medium_threshold) ==
    IF score >= high_threshold THEN "High Fit"
    ELSE IF score >= medium_threshold THEN "Medium Fit"
    ELSE "Low Fit"

CategorizeJob(job, profile_data, high_threshold, medium_threshold) ==
    LET job_keywords == ExtractKeywords(Join(<<" ">>, JobDescriptionParts(job)))
        score == ProfileScore(profile_data, job_keywords)
    IN  [k \in DOMAIN job \cup {"fit_score", "fit_category"} |->
            IF k = "fit_score" THEN score
            ELSE IF k = "fit_category"
            THEN FitCategory(score, high_threshold, medium_threshold)
            ELSE job[k]]

ScoreKeys == {"skills", "work_experience", "projects"}

\* A plausible slip: when the constructor fails the jobs go on unscored.
CategorizeJobsUnscored(jobs_list, loaded, high_threshold, medium_threshold) ==
    [raised |-> None, constructed |-> ResumeTailorInit(loaded).raised = None,
     jobs |-> jobs_list]

\* categorize_jobs on the pair load_profile returned for profile_name: the
\* ValueError of the constructor is caught and gives []; the first job scored
\* against a profile that lacks a key the loops read raises KeyError.
CategorizeJobs(jobs_list, loaded, high_threshold, medium_threshold) ==
    LET tailor == ResumeTailorInit(loaded) IN
    IF tailor.raised # None
    THEN [raised |-> None, constructed |-> FALSE, jobs |-> <<>>]
    ELSE IF Len(jobs_list) > 0 /\ ~(ScoreKeys \subseteq DOMAIN tailor.profile_data)
    THEN [raised |-> "KeyError", constructed |-> TRUE]
    ELSE [raised |-> None, constructed |-> TRUE,
          jobs |-> [i \in 1..Len(jobs_list) |->
                      CategorizeJob(jobs_list[i], tailor.profile_data,
                                    high_threshold, medium_threshold)]]

(***************************************************************************)
(* Inputs of the engine calls.                                             *)
(***************************************************************************)
sPython == <<"P", "y", "t", "h", "o", "n">>
sSQL == <<"S", "Q", "L">>
sGo == <<"G", "o">>
sJava == <<"J", "a", "v", "a">>
sBuilt == <<"B", "u", "i", "l", "t", " ", "P", "y", "t", "h", "o", "n", " ", "t", "o", "o", "l", "s">>
sAnalyzed == <<"A", "n", "a", "l", "y", "z", "e", "d", " ", "d", "a", "t", "a">>
sEngineer == <<"E", "n", "g", "i", "n", "e", "e", "r">>
sIntern == <<"I", "n", "t", "e", "r", "n">>
sClerk == <<"C", "l", "e", "r", "k">>
sAcme == <<"A", "c", "m", "e">>
sDataInc == <<"D", "a", "t", "a", " ", "I", "n", "c">>
sScraper == <<"S", "c", "r", "a", "p", "e", "r">>
sBlog == <<"B", "l", "o", "g">>
sSeeking == <<"S", "e", "e", "k", "i", "n", "g", " ", "P", "y", "t", "h", "o", "n", " ", "e", "n", "g", "i", "n", "e", "e", "r">>
sSqlData == <<"S", "Q", "L", " ", "d", "a", "t", "a">>
sToGo == <<"t", "o", " ", "g", "o">>
sOnSq == <<"o", "n", " ", "s", "q">>
sPythonSql == <<"P", "y", "t", "h", "o", "n", " ", "S", "Q", "L", " ", "E", "n", "g", "i", "n", "e", "e", "r">>

PersonalInfo == [name |-> "n", email |-> "e", phone |-> "p", linkedin |-> "l", github |-> "g"]

Exp1 == [title |-> sEngineer, company |-> sAcme, description |-> <<sBuilt>>,
         technologies |-> <<sPython, sSQL>>]
Exp2 == [title |-> sIntern, company |-> sDataInc, description |-> <<sAnalyzed>>]
Exp3 == [title |-> sClerk, company |-> sAcme]

Proj1 == [name |-> sScraper, description |-> <<sBuilt>>, technologies |-> <<sPython>>]
Proj2 == [name |-> sBlog]

Skills0 == <<>>
Skills1 == <<<<"Languages", <<sPython>>>>>>
Skills2 == <<<<"Languages", <<sGo, sPython, sSQL>>>>, <<"Tools", <<>>>>>>
Skills3 == <<<<"Tools", <<>>>>>>

MkProfile(skills, work, projects) ==
    [personal_info |-> PersonalInfo, education |-> <<>>, work_experience |-> work,
     projects |-> projects, skills |-> skills]

(***************************************************************************)
(* Engine calls.                                                           *)
(***************************************************************************)
MaxFrags == 2
MaxKeywords == 3
MaxJobs == 2
MaxThreshold == 5
MaxWork == 4
MaxProjects == 3

SeqsUpTo(S, n) == UNION {[1..k -> S] : k \in 0..n}

FragmentPool == {sPython, sSQL, sBuilt}
KeywordPool == {Lower(sPython), sSQL, sOnSq, Lower(sJava)}

\* A call is drawn by the initial state (tIn) and applied once (tOut).
Pending == [op |-> "pending"]

ScoreCalls ==
    {[op |-> "score", text_list |-> t, keywords |-> k] :
        t \in SeqsUpTo(FragmentPool, MaxFrags),
        k \in SeqsUpTo(KeywordPool, MaxKeywords)}

Score ==
    /\ tIn.op = "score"
    /\ tOut = Pending
    /\ tOut' = [op |-> "score",
                score |-> CalculateKeywordScore(tIn.text_list, tIn.keywords)]
    /\ UNCHANGED <<writers, session, tIn, dbVars, profileVars>>

\* The score of a text list against the keywords of a job description, as
\* tailor_resume and categorize_jobs compute it.
sPythonTwice ==
    <<"P", "y", "t", "h", "o", "n", " ", "p", "y", "t", "h", "o", "n", " ", "S", "Q", "L">>

ScoreDescriptionCalls ==
    {[op |-> "score_description", text_list |-> t, job_description |-> d] :
        t \in SeqsUpTo(FragmentPool, MaxFrags),
        d \in {sSeeking, sSqlData, sToGo, sPythonTwice}}

ScoreDescription ==
    /\ tIn.op = "score_description"
    /\ tOut = Pending
    /\ tOut' = [op |-> "score_description",
                keywords |-> ExtractKeywords(tIn.job_description),
                score |-> CalculateKeywordScore(tIn.text_list,
                                                ExtractKeywords(tIn.job_description))]
    /\ UNCHANGED <<writers, session, tIn, dbVars, profileVars>>

Job1 == [role |-> sPythonSql, company |-> sAcme]
Job2 == [role |-> sPython, company |-> sGo]
Job3 == [company |-> sDataInc]

ScrapedJobPool == {Job1, Job2, Job3}

ProfileA == MkProfile(Skills2, <<Exp1, Exp2>>, <<Proj1>>)
ProfileB == MkProfile(Skills1, <<Exp3>>, <<>>)
ProfileC == MkProfile(Skills0, <<>>, <<>>)

Loaded(profile_data) == [data |-> Obj(profile_data), error |-> None]
NotFound == [data |-> NoData, error |-> "Profile not found."]

LoadedPool == {Loaded(ProfileA), Loaded(ProfileB), Loaded(ProfileC), NotFound}

CategorizeCalls ==
    {[op |-> "categorize", jobs_list |-> j, loaded |-> l,
      high_threshold |-> h, medium_threshold |-> m] :
        j \in SeqsUpTo(ScrapedJobPool, MaxJobs), l \in LoadedPool,
        h \in 0..MaxThreshold, m \in 0..MaxThreshold}

Categorize ==
    /\ tIn.op = "categorize"
    /\ tOut = Pending
    /\ tOut' = CategorizeJobs(tIn.jobs_list, tIn.loaded, tIn.high_threshold,
                              tIn.medium_threshold)
    /\ UNCHANGED <<writers, session, tIn, dbVars, profileVars>>

JobDescriptionPool == {sSeeking, sSqlData, sToGo, sPythonSql}

TailorProfiles ==
    {MkProfile(sk, w, pr) : sk \in {Skills0, Skills1, Skills2, Skills3},
                            w \in SeqsUpTo({Exp1, Exp2, Exp3}, MaxWork),
                            pr \in SeqsUpTo({Proj1, Proj2}, MaxProjects)}

TailorCalls ==
    {[op |-> "tailor", profile_data |-> p, job_description |-> d] :
        p \in TailorProfiles, d \in JobDescriptionPool}

Tailor ==
    /\ tIn.op = "tailor"
    /\ tOut = Pending
    /\ tOut' = TailorResume(tIn.profile_data, tIn.job_description)
    /\ UNCHANGED <<writers, session, tIn, dbVars, profileVars>>

InitScore ==
    /\ tIn \in ScoreCalls \cup ScoreDescriptionCalls \cup CategorizeCalls
    /\ tOut = Pending
    /\ jobs = <<>>
    /\ dbLast = NoCall
    /\ writers = NoWriters
    /\ files = EmptyDict
    /\ pLast = NoCall
    /\ session = NoSession

InitTailor ==
    /\ tIn \in TailorCalls
    /\ tOut = Pending
    /\ jobs = <<>>
    /\ dbLast = NoCall
    /\ writers = NoWriters
    /\ files = EmptyDict
    /\ pLast = NoCall
    /\ session = NoSession

NextScore == Score \/ ScoreDescription \/ Categorize

NextTailor == Tailor

(***************************************************************************)
(* Listing scraper: src/src/github_job_scraper.py                          *)
(*                                                                         *)
(* The fetched document is the environment's.  A table is                  *)
(*   [category |-> text of the preceding h3, or None,                      *)
(*    thead |-> it has a thead, headers |-> the th texts of the thead,     *)
(*    tbody |-> it has a tbody, rows |-> the tbody's rows],                *)
(* a row is the sequence of its td cells, and a cell is                    *)
(*   [text |-> its text, a |-> it holds an a with an href, href |-> that,  *)
(*    details |-> "none", or for a details element: "count" (summary with  *)
(*                a strong starting with a number), "words" (a strong      *)
(*                not starting with a number), "plain" (no strong)].       *)
(* The texts carry no emoji, so the company substitution changes nothing.  *)
(***************************************************************************)

\* header_map.get(h, h.lower().replace(' ', '_'))
\* (a header outside the map is taken as already lowercase without spaces)
MapHeader(h) ==
    CASE h = "Company" -> "company"
      [] h = "Role" -> "role"
      [] h = "Location" -> "location"
      [] h = "Application" -> "link"
      [] h = "Age" -> "date_posted"
      [] h = "Job Type" -> "job_type"
      [] OTHER -> h

\* What a cell contributes under a mapped header; raised is the exception
\* int() throws on a summary that does not start with a number.
CellValue(header, cell) ==
    IF header = "link"
    THEN [raised |-> None, value |-> IF cell.a THEN cell.href ELSE cell.text]
    ELSE IF header = "location" /\ cell.details = "words"
    THEN [raised |-> "ValueError", value |-> <<>>]
    ELSE [raised |-> None, value |-> cell.text]

\* The job_data of one row: later columns overwrite earlier ones of the
\* same key; original_category is added last.
RowJob(mapped_headers, cells, current_category) ==
    LET keys == {mapped_headers[i] : i \in 1..Len(mapped_headers)}
        last(k) == CHOOSE i \in 1..Len(mapped_headers) :
                      /\ mapped_headers[i] = k
                      /\ \A j \in 1..Len(mapped_headers) : mapped_headers[j] = k => j <= i
    IN  [k \in keys \cup {"original_category"} |->
            IF k = "original_category" THEN current_category
            ELSE CellValue(k, cells[last(k)]).value]

RowRaises(mapped_headers, cells) ==
    \E i \in 1..Len(mapped_headers) : CellValue(mapped_headers[i], cells[i]).raised # None

\* The rows of one table, from row i on; rows whose cell count differs from
\* the header count are skipped.
RECURSIVE ParseRows(_, _, _, _, _)
ParseRows(mapped_headers, rows, current_category, i, acc) ==
    IF i > Len(rows) THEN [raised |-> None, jobs |-> acc]
    ELSE IF Len(rows[i]) # Len(mapped_headers)
    THEN ParseRows(mapped_headers, rows, current_category, i + 1, acc)
    ELSE IF RowRaises(mapped_headers, rows[i])
    THEN [raised |-> "ValueError", jobs |-> acc]
    ELSE ParseRows(mapped_headers, rows, current_category, i + 1,
                   Append(acc, RowJob(mapped_headers, rows[i], current_category)))

\* parse_jobs_from_html: the loop over the tables from table t on.
\* table.find('thead') and table.find('tbody') are None when the element is
\* missing, and the attribute access on None raises AttributeError.
RECURSIVE ParseTables(_, _, _)
ParseTables(tables, t, acc) ==
    IF t > Len(tables) THEN [raised |-> None, jobs |-> acc]
    ELSE LET table == tables[t]
             current_category == IF table.category # None THEN table.category
                                 ELSE "Uncategorized"
         IN  IF ~table.thead THEN [raised |-> "AttributeError", jobs |-> <<>>]
             ELSE IF ~table.tbody THEN [raised |-> "AttributeError", jobs |-> <<>>]
             ELSE LET mapped_headers == [i \in 1..Len(table.headers) |->
                                            MapHeader(table.headers[i])]
                      r == ParseRows(mapped_headers, table.rows, current_category, 1, acc)
                  IN  IF r.raised # None THEN [raised |-> r.raised, jobs |-> <<>>]
                      ELSE ParseTables(tables, t + 1, r.jobs)

ParseJobsFromHtml(tables) == ParseTables(tables, 1, <<>>)

\* fetch_content: the response text, or None on a RequestException.
FetchFailed == [kind |-> "RequestException"]
EmptyText == [kind |-> "text", tables |-> <<>>, empty |-> TRUE]
Html(tables) == [kind |-> "text", tables |-> tables, empty |-> FALSE]

\* get_jobs on what the fetch produced.
GetJobs(fetched) ==
    IF fetched.kind = "RequestException" \/ fetched.empty
    THEN [raised |-> None, jobs |-> <<>>]
    ELSE ParseJobsFromHtml(fetched.tables)

\* Documents.
Cell(text) == [text |-> text, a |-> FALSE, href |-> <<>>, details |-> "none"]
LinkCell(text, href) == [text |-> text, a |-> TRUE, href |-> href, details |-> "none"]
DetailsCell(text, details) == [text |-> text, a |-> FALSE, href |-> <<>>, details |-> details]

Row1 == <<Cell(sAcme), Cell(sPythonSql), LinkCell(sToGo, sBlog)>>
Row2 == <<Cell(sDataInc), Cell(sEngineer), Cell(sScraper)>>
RowShort == <<Cell(sAcme), Cell(sClerk)>>
Headers3 == <<"Company", "Role", "Application">>

LocHeaders == <<"Company", "Role", "Location">>
LocRowCount == <<Cell(sAcme), Cell(sPython), DetailsCell(sToGo, "count")>>
LocRowWords == <<Cell(sAcme), Cell(sPython), DetailsCell(sToGo, "words")>>

HeaderChoices == {Headers3, LocHeaders}
RowsChoices == {<<>>, <<Row1>>, <<Row1, RowShort, Row2>>, <<LocRowCount>>,
                <<Row2, LocRowWords>>}

\* Tables with both sections, and tables lacking one.
TablePool ==
    [category : {None, "Software"}, thead : {TRUE}, headers : HeaderChoices,
     tbody : {TRUE}, rows : RowsChoices]
    \cup {[category |-> None, thead |-> FALSE, headers |-> <<>>, tbody |-> TRUE,
           rows |-> <<Row1>>],
          [category |-> None, thead |-> TRUE, headers |-> Headers3, tbody |-> FALSE,
           rows |-> <<>>]}

MaxTables == 2

FetchedPool ==
    {FetchFailed, EmptyText} \cup {Html(ts) : ts \in SeqsUpTo(TablePool, MaxTables)}

ScrapeCalls == {[op |-> "get_jobs", fetched |-> f] : f \in FetchedPool}

Scrape ==
    /\ tIn.op = "get_jobs"
    /\ tOut = Pending
    /\ tOut' = [op |-> "get_jobs", raised |-> GetJobs(tIn.fetched).raised,
                jobs |-> GetJobs(tIn.fetched).jobs]
    /\ UNCHANGED <<writers, session, tIn, dbVars, profileVars>>

InitScrape ==
    /\ tIn \in ScrapeCalls
    /\ tOut = Pending
    /\ jobs = <<>>
    /\ dbLast = NoCall
    /\ writers = NoWriters
    /\ files = EmptyDict
    /\ pLast = NoCall
    /\ session = NoSession

NextScrape == Scrape

SpecScrape == InitScrape /\ [][NextScrape]_vars

(***************************************************************************)
(* Profile store: src/src/profile_manager.py                               *)
(*                                                                         *)
(* files maps the names that have a file in the profiles directory to the  *)
(* file's content: Malformed (not JSON) or the JSON text of a value.       *)
(***************************************************************************)
Malformed == [t |-> "malformed"]

\* JSON text, as a tree of tokens: null, a string, an array of texts, an
\* object as the sequence of its <<key, text>> members in written order.
JsonNull == [j |-> "null"]
JsonString(s) == [j |-> "string", s |-> s]
JsonArray(items) == [j |-> "array", items |-> items]
JsonObject(members) == [j |-> "object", members |-> members]

\* The order in which a dict's keys are written (dicts keep insertion order;
\* the documents here are built in this order).
KeyOrder ==
    <<"personal_info", "education", "work_experience", "projects", "skills",
      "name", "email", "phone", "linkedin", "github",
      "title", "company", "description", "technologies">>

KeysOf(d) == SelectSeq(KeyOrder, LAMBDA k : k \in DOMAIN d)

EncodeStrings(list) == JsonArray([i \in 1..Len(list) |-> JsonString(list[i])])

\* A dict whose values are strings (personal_info).
EncodeInfo(d) ==
    LET ks == KeysOf(d)
    IN  JsonObject([i \in 1..Len(ks) |-> <<ks[i], JsonString(d[ks[i]])>>])

\* An entry of education, work_experience or projects: description and
\* technologies are lists of strings, the other values strings.
EncodeEntry(d) ==
    LET ks == KeysOf(d)
    IN  JsonObject([i \in 1..Len(ks) |->
            <<ks[i], IF ks[i] \in {"description", "technologies"}
                     THEN EncodeStrings(d[ks[i]])
                     ELSE JsonString(d[ks[i]])>>])

EncodeEntries(list) == JsonArray([i \in 1..Len(list) |-> EncodeEntry(list[i])])

\* skills: a dict from category to list of strings, kept as its items in order.
EncodeSkills(skills) ==
    JsonObject([i \in 1..Len(skills) |-> <<skills[i][1], EncodeStrings(skills[i][2])>>])

\* json.dump of a loaded-or-built value: None or a profile dict.
JsonEncode(v) ==
    IF v.t = "None" THEN JsonNull
    ELSE LET ks == KeysOf(v.d)
         IN  JsonObject([i \in 1..Len(ks) |->
                 <<ks[i], IF ks[i] = "personal_info" THEN EncodeInfo(v.d[ks[i]])
                          ELSE IF ks[i] = "skills" THEN EncodeSkills(v.d[ks[i]])
                          ELSE EncodeEntries(v.d[ks[i]])>>])

\* json.load: strings, lists and dicts from their texts.
DecodeStrings(text) == [i \in 1..Len(text.items) |-> text.items[i].s]

\* The value of key k in an object: a repeated key keeps its last value.
LastMember(members, k) ==
    LET at == {i \in 1..Len(members) : members[i][1] = k}
    IN  members[CHOOSE i \in at : \A j \in at : j <= i][2]

MemberKeys(members) == {members[i][1] : i \in 1..Len(members)}

DecodeInfo(text) ==
    [k \in MemberKeys(text.members) |-> LastMember(text.members, k).s]

DecodeEntry(text) ==
    [k \in MemberKeys(text.members) |->
        IF LastMember(text.members, k).j = "array"
        THEN DecodeStrings(LastMember(text.members, k))
        ELSE LastMember(text.members, k).s]

DecodeEntries(text) == [i \in 1..Len(text.items) |-> DecodeEntry(text.items[i])]

DecodeSkills(text) ==
    [i \in 1..Len(text.members) |->
        <<text.members[i][1], DecodeStrings(text.members[i][2])>>]

JsonDecode(text) ==
    IF text.j = "null" THEN NoData
    ELSE Obj([k \in MemberKeys(text.members) |->
                LET m == LastMember(text.members, k)
                IN  IF k = "skills" THEN DecodeSkills(m)
                    ELSE IF m.j = "array" THEN DecodeEntries(m)
                    ELSE DecodeInfo(m)])

\* json.dump(profile_data, f, indent=2): the file content written for a value.
JsonDump(v) == [t |-> "json", text |-> JsonEncode(v)]

\* The top-level fields the profile schema requires (schemas/profile_schema.json).
RequiredFields == {"personal_info", "education", "work_experience", "projects", "skills"}

\* validate_profile: jsonschema.validate raises ValidationError
ValidateProfile(profile_data) ==
    /\ profile_data.t = "dict"
    /\ RequiredFields \subseteq DOMAIN profile_data.d

\* load_profile: the pair (profile_data, error).  An invalid profile only
\* prints a warning.
LoadProfile(fs, profile_name) ==
    IF profile_name \notin DOMAIN fs
    THEN [data |-> NoData, error |-> "Profile not found."]
    ELSE IF fs[profile_name].t = "malformed"
    THEN [data |-> NoData, error |-> "Error: Invalid JSON in profile file."]
    ELSE [data |-> JsonDecode(fs[profile_name].text), error |-> None]

\* A plausible slip: the file is opened for exclusive creation, so an
\* existing file keeps its content.
WriteFileExclusive(fs, profile_name, content) ==
    [n \in DOMAIN fs \cup {profile_name} |->
        IF n \in DOMAIN fs THEN fs[n] ELSE content]

\* Writing file profile_name: the store afterwards.
WriteFile(fs, profile_name, content) ==
    [n \in DOMAIN fs \cup {profile_name} |->
        IF n = profile_name THEN content ELSE fs[n]]

\* A plausible slip: the early return on invalid data is missing.
SaveProfileUnchecked(fs, profile_name, profile_data) ==
    [ok |-> ValidateProfile(profile_data),
     files |-> WriteFile(fs, profile_name, JsonDump(profile_data))]

\* save_profile: (success, files afterwards)
SaveProfile(fs, profile_name, profile_data) ==
    IF ~ValidateProfile(profile_data)
    THEN [ok |-> FALSE, files |-> fs]
    ELSE [ok |-> TRUE, files |-> WriteFile(fs, profile_name, JsonDump(profile_data))]

NoSave == [t |-> "not called"]

\* create_new_profile: personal_info is prompted for when initial_data has
\* none; the other sections are defaulted.
PromptedInfo == [name |-> "in", email |-> "in", phone |-> "in", linkedin |-> "in",
                 github |-> "in"]

NewProfileData(initial_data) ==
    LET d0 == IF Falsy(initial_data) THEN EmptyDict ELSE initial_data.d
        d1 == IF "personal_info" \in DOMAIN d0 /\ DOMAIN d0["personal_info"] # {}
              THEN d0
              ELSE [k \in DOMAIN d0 \cup {"personal_info"} |->
                      IF k = "personal_info" THEN PromptedInfo ELSE d0[k]]
        d2 == SetDefault(d1, "education", <<>>)
        d3 == SetDefault(d2, "work_experience", <<>>)
        d4 == SetDefault(d3, "projects", <<>>)
    IN  Obj(SetDefault(d4, "skills", <<>>))

CreateNewProfile(fs, profile_name, initial_data) ==
    IF LoadProfile(fs, profile_name).data.t # "None"
    THEN [ok |-> FALSE, files |-> fs, save_arg |-> NoSave]
    ELSE LET r == SaveProfile(fs, profile_name, NewProfileData(initial_data))
         IN  [ok |-> r.ok, files |-> r.files, save_arg |-> NewProfileData(initial_data)]

\* edit_profile: typed is what the user enters: "cancel", text that is not
\* JSON, or the JSON text of a value.
Cancel == [t |-> "cancel"]

EditProfile(fs, profile_name, typed) ==
    IF LoadProfile(fs, profile_name).error # None
    THEN [ok |-> FALSE, files |-> fs, save_arg |-> NoSave]
    ELSE IF typed.t = "cancel" \/ typed.t = "malformed"
    THEN [ok |-> FALSE, files |-> fs, save_arg |-> NoSave]
    ELSE LET updated_profile_data == JsonDecode(typed.text)
             r == SaveProfile(fs, profile_name, updated_profile_data)
         IN  [ok |-> r.ok, files |-> r.files, save_arg |-> updated_profile_data]

(***************************************************************************)
(* PDF renderer: src/src/pdf_renderer.py                                   *)
(*                                                                         *)
(* The two library calls are the environment's: convert is the outcome of  *)
(* markdown.markdown ("ok" or "raises"), pdf the outcome of                *)
(* pdfkit.from_string ("ok" or the class of the exception it raises).      *)
(***************************************************************************)
ConvertOutcomes == {"ok", "raises"}
PdfOutcomes == {"ok", "FileNotFoundError", "OSError"}

\* The messages render_markdown_to_pdf builds.
MsgRendered == "PDF successfully rendered"
MsgInstall == "'wkhtmltopdf' not found. Please install it"
MsgLibrary == "Error rendering PDF: {e}"

\* render_markdown_to_pdf: raised is the exception that leaves the method
\* (None when it returns), (success, message) the pair returned.
RenderMarkdownToPdf(convert, pdf) ==
    IF convert = "raises"
    THEN [raised |-> "Exception", success |-> FALSE, message |-> None]
    ELSE IF pdf = "ok"
    THEN [raised |-> None, success |-> TRUE, message |-> MsgRendered]
    ELSE IF pdf = "FileNotFoundError"
    THEN [raised |-> None, success |-> FALSE, message |-> MsgInstall]
    ELSE [raised |-> None, success |-> FALSE, message |-> MsgLibrary]

(***************************************************************************)
(* Application workflow: src/src/application_workflow.py                   *)
(***************************************************************************)

\* Answers to the approval prompt.
sYes == <<"y", "e", "s">>
sYesPadded == <<" ", "Y", "e", "s", " ">>
sNo == <<"n", "o">>
sY == <<"y">>

\* A plausible slip: any answer starting with "y" approves.
ApprovedByInitial(answer) ==
    Len(Strip(Lower(answer))) > 0 /\ Strip(Lower(answer))[1] = "y"

\* approval = input(...).lower().strip(); the gate is approval == 'yes'.
Approved(answer) == Strip(Lower(answer)) = sYes

\* format_to_markdown subscripts these keys; a missing one raises KeyError.
InfoKeys == {"name", "email", "phone", "linkedin", "github"}
EduKeys == {"degree", "major", "institution", "location", "start_date", "end_date"}
ExpKeys == {"title", "company", "location", "start_date"}
ProjKeys == {"name", "start_date"}

FormatRaises(tailored_resume) ==
    \/ ~(InfoKeys \subseteq DOMAIN tailored_resume.personal_info)
    \/ \E i \in 1..Len(tailored_resume.education) :
          ~(EduKeys \subseteq DOMAIN tailored_resume.education[i])
    \/ \E i \in 1..Len(tailored_resume.work_experience) :
          ~(ExpKeys \subseteq DOMAIN tailored_resume.work_experience[i])
    \/ \E i \in 1..Len(tailored_resume.projects) :
          ~(ProjKeys \subseteq DOMAIN tailored_resume.projects[i])

\* full_job_description_text: role, company, and the fields of raw_data the
\* code appends when they are present and not empty.
RawDataKeys == <<"location", "requirements", "qualifications", "responsibilities">>

FullJobDescription(selected_job) ==
    LET raw == selected_job["raw_data"]
        desc == IF JobHas(raw, "Description") THEN <<raw["Description"]>>
                ELSE IF JobHas(raw, "description") THEN <<raw["description"]>>
                ELSE <<>>
        more == SelectSeq(RawDataKeys, LAMBDA k : JobHas(raw, k))
    IN  Join(<<" ">>, <<selected_job["role"], selected_job["company"]>> \o desc
                       \o [i \in 1..Len(more) |-> raw[more[i]]])

\* ApplicationWorkflow(profile_name).execute_application_flow(selected_job):
\* answer is what the user types at the approval prompt, convert and pdf the
\* outcomes of the renderer's two steps.  ret is the value returned (None: an
\* exception left the method), rows the table afterwards.
ExecuteApplicationFlow(fs, rows, profile_name, selected_job, answer, convert, pdf) ==
    LET tailor == ResumeTailorInit(LoadProfile(fs, profile_name))
        none == [constructed |-> FALSE, tailored |-> FALSE, prompted |-> FALSE,
                 rendered |-> FALSE, status |-> None, raised |-> None,
                 ret |-> "False", rows |-> rows]
    IN
    IF tailor.raised # None THEN none
    ELSE LET t == TailorResume(tailor.profile_data, FullJobDescription(selected_job))
             ran == [none EXCEPT !.constructed = TRUE, !.tailored = TRUE]
             r == RenderMarkdownToPdf(convert, pdf)
         IN
         IF t.raised # None
         THEN [ran EXCEPT !.raised = t.raised, !.ret = None]
         ELSE IF FormatRaises(t.tailored_resume)
         THEN [ran EXCEPT !.raised = "KeyError", !.ret = None]
         ELSE IF ~Approved(answer)
         THEN [ran EXCEPT !.prompted = TRUE, !.status = "tailoring_rejected",
                          !.rows = UpdateJobStatusRows(rows, selected_job["id"],
                                                       "tailoring_rejected")]
         ELSE IF r.raised # None
         THEN [ran EXCEPT !.prompted = TRUE, !.rendered = TRUE,
                          !.raised = r.raised, !.ret = None]
         ELSE IF r.success
         THEN [ran EXCEPT !.prompted = TRUE, !.rendered = TRUE,
                          !.status = "resume_tailored", !.ret = "True",
                          !.rows = UpdateJobStatusRows(rows, selected_job["id"],
                                                       "resume_tailored")]
         ELSE [ran EXCEPT !.prompted = TRUE, !.rendered = TRUE,
                          !.status = "pdf_render_failed",
                          !.rows = UpdateJobStatusRows(rows, selected_job["id"],
                                                       "pdf_render_failed")]

(***************************************************************************)
(* Profile-store session: the store on disk is whatever earlier sessions   *)
(* and the user's editor left there; the job table holds one scraped job.  *)
(***************************************************************************)
Names == {"alice", "bob"}

InvalidProfile ==
    [k \in {"personal_info", "work_experience", "projects", "skills"} |-> ProfileA[k]]

ProfileData ==
    {NoData, Obj(EmptyDict), Obj(InvalidProfile), Obj(ProfileA), Obj(ProfileC)}

FileContents == {Malformed} \cup {JsonDump(v) : v \in ProfileData}

Stores == UNION {[S -> FileContents] : S \in SUBSET Names}

StoredJob ==
    [company |-> sAcme, role |-> sPythonSql, location |-> sGo, link |-> sBlog,
     date_posted |-> sSQL, original_category |-> sEngineer]

\* How the file of profile_name stands before a call.
FileKind(fs, profile_name) ==
    IF profile_name \notin DOMAIN fs THEN "missing"
    ELSE IF fs[profile_name].t = "malformed" THEN "malformed"
    ELSE IF ValidateProfile(JsonDecode(fs[profile_name].text)) THEN "valid"
    ELSE "schema-invalid"

DoSaveProfile(n, data) ==
    LET r == SaveProfile(files, n, data) IN
    /\ files' = r.files
    /\ pLast' = [op |-> "save_profile", name |-> n, before |-> files,
                 ok |-> r.ok, save_arg |-> data]
    /\ UNCHANGED <<writers, session, dbVars, engineVars>>

DoCreateNewProfile(n, initial_data) ==
    LET r == CreateNewProfile(files, n, initial_data) IN
    /\ files' = r.files
    /\ pLast' = [op |-> "create_new_profile", name |-> n, before |-> files,
                 ok |-> r.ok, save_arg |-> r.save_arg]
    /\ UNCHANGED <<writers, session, dbVars, engineVars>>

DoEditProfile(n, typed) ==
    LET r == EditProfile(files, n, typed) IN
    /\ files' = r.files
    /\ pLast' = [op |-> "edit_profile", name |-> n, before |-> files,
                 ok |-> r.ok, save_arg |-> r.save_arg]
    /\ UNCHANGED <<writers, session, dbVars, engineVars>>

DoCategorizeJobs(n, jobs_list) ==
    LET r == CategorizeJobs(jobs_list, LoadProfile(files, n), DefaultHighThreshold,
                            DefaultMediumThreshold) IN
    /\ pLast' = [op |-> "categorize_jobs", name |-> n, before |-> files,
                 kind |-> FileKind(files, n),
                 constructed |-> r.constructed,
                 scored |-> r.constructed /\ Len(jobs_list) > 0 /\ r.raised = None,
                 tailored |-> FALSE,
                 status |-> None]
    /\ UNCHANGED <<writers, session, files, dbVars, engineVars>>

\* selector.display_and_select_job() gave row j of the table; then
\* ApplicationWorkflow(n).execute_application_flow(selected_job).
DoExecuteApplicationFlow(n, j, answer, convert, pdf) ==
    LET r == ExecuteApplicationFlow(files, jobs, n, jobs[j], answer, convert, pdf) IN
    /\ jobs' = r.rows
    /\ pLast' = [op |-> "execute_application_flow", name |-> n, before |-> files,
                 kind |-> FileKind(files, n),
                 constructed |-> r.constructed,
                 scored |-> r.tailored,
                 tailored |-> r.tailored,
                 status |-> r.status,
                 selected |-> j, status_before |-> jobs[j]["status"],
                 answer |-> answer, convert |-> convert, pdf |-> pdf,
                 prompted |-> r.prompted, rendered |-> r.rendered,
                 raised |-> r.raised, ret |-> r.ret]
    /\ UNCHANGED <<writers, session, files, dbLast, engineVars>>

InitProfile ==
    /\ files \in Stores
    /\ pLast = NoCall
    /\ session = NoSession
    /\ jobs = InsertJobsResult(<<>>, <<StoredJob>>).rows
    /\ dbLast = NoCall
    /\ writers = NoWriters
    /\ tIn = NoCall
    /\ tOut = NoCall

NextProfile ==
    \/ \E n \in Names, d \in ProfileData : DoSaveProfile(n, d)
    \/ \E n \in Names, d \in {NoData, Obj(InvalidProfile), Obj(ProfileA)} :
          DoCreateNewProfile(n, d)
    \/ \E n \in Names, t \in {Cancel, Malformed} \cup {JsonDump(v) : v \in ProfileData} :
          DoEditProfile(n, t)
    \/ \E n \in Names, j \in SeqsUpTo({Job1}, 1) : DoCategorizeJobs(n, j)
    \/ \E n \in Names, a \in {sYes, sNo}, p \in {"ok", "OSError"} :
          DoExecuteApplicationFlow(n, 1, a, "ok", p)

InitDB ==
    /\ jobs = <<>>
    /\ dbLast = NoCall
    /\ writers = NoWriters
    /\ tIn = NoCall
    /\ tOut = NoCall
    /\ files = EmptyDict
    /\ pLast = NoCall
    /\ session = NoSession

NextDB ==
    \E b \in Batches : InsertJobs(JobsOf(b))

SpecDB == InitDB /\ [][NextDB]_vars

\* The repository under all its writing operations: single inserts (with
\* and without a link), status updates and fit updates, for ids that match
\* a row and ids that match none.
InitRepo ==
    /\ jobs = <<>>
    /\ dbLast = NoCall
    /\ writers = NoWriters
    /\ tIn = NoCall
    /\ tOut = NoCall
    /\ files = EmptyDict
    /\ pLast = NoCall
    /\ session = NoSession

NextRepo ==
    \/ \E l \in LinkVals : InsertJobs(<<MkJob(l, "r1", "d1")>>)
    \/ \E id \in 0..(MaxRows + 1), st \in {"new", "resume_tailored"} :
          UpdateJobStatus(id, st)
    \/ \E id \in 0..(MaxRows + 1) :
          UpdateJobFitScoreAndCategory(id, DefaultHighThreshold, "High Fit")

SpecRepo == InitRepo /\ [][NextRepo]_vars

(***************************************************************************)
(* Two processes on one jobs.db.  Each has its own connection and runs     *)
(* insert_jobs(jobs_list): per job a SELECT, which sees the rows committed *)
(* so far, and, when that found nothing, insert_job, whose INSERT and      *)
(* commit make one transaction.  No transaction spans the SELECT and the   *)
(* INSERT, and the table has no UNIQUE constraint.                         *)
(*                                                                         *)
(* writers[p].pc is "check" before the SELECT for job i, "insert" between  *)
(* an empty SELECT and the INSERT, "done" after the loop; seen is the      *)
(* number of rows the last SELECT ran on, and log the rows p inserted.     *)
(***************************************************************************)
Writers == {1, 2}

\* The most jobs one process inserts.
MaxWriterJobs == 2

\* Jobs with the same link and role, told apart by date_posted.
WriterJobs == {MkJob("l1", "r1", d) : d \in DateVals}

WriterLists == UNION {[1..n -> WriterJobs] : n \in 1..MaxWriterJobs}

\* for job_data in jobs_list: the next job, or the end of the loop.
WriterAdvance(w) ==
    [w EXCEPT !.i = w.i + 1,
              !.pc = IF w.i + 1 > Len(w.jobs_list) THEN "done" ELSE "check"]

\* cursor.execute('SELECT id ...'); existing_job = cursor.fetchone()
WriterCheck(p) ==
    /\ writers[p].pc = "check"
    /\ LET w == [writers[p] EXCEPT !.seen = Len(jobs)]
       IN  writers' = [writers EXCEPT ![p] =
                          IF ExistingJob(jobs, w.jobs_list[w.i])
                          THEN WriterAdvance(w)
                          ELSE [w EXCEPT !.pc = "insert"]]
    /\ UNCHANGED <<jobs, dbLast, session, engineVars, profileVars>>

\* self.insert_job(job_data); inserted_count += 1
WriterInsert(p) ==
    /\ writers[p].pc = "insert"
    /\ LET w == writers[p]
           row == NewRow(jobs, w.jobs_list[w.i])
       IN  /\ jobs' = Append(jobs, row)
           /\ writers' = [writers EXCEPT ![p] =
                  WriterAdvance([w EXCEPT
                      !.inserted_count = w.inserted_count + 1,
                      !.log = w.log \cup {[id |-> row["id"], seen |-> w.seen]}])]
    /\ UNCHANGED <<dbLast, session, engineVars, profileVars>>

InitWriters ==
    /\ jobs = <<>>
    /\ dbLast = NoCall
    /\ tIn = NoCall
    /\ tOut = NoCall
    /\ files = EmptyDict
    /\ pLast = NoCall
    /\ session = NoSession
    /\ \E lists \in [Writers -> WriterLists] :
          writers = [p \in Writers |->
                       [jobs_list |-> lists[p], i |-> 1, pc |-> "check", seen |-> 0,
                        inserted_count |-> 0, log |-> {}]]

NextWriters ==
    \E p \in Writers : WriterCheck(p) \/ WriterInsert(p)

SpecWriters == InitWriters /\ [][NextWriters]_vars

SpecScore == InitScore /\ [][NextScore]_vars

SpecTailor == InitTailor /\ [][NextTailor]_vars

SpecProfile == InitProfile /\ [][NextProfile]_vars

\* One application session: a profile file in any condition, two stored
\* jobs, and runs of the application flow on either of them.
StoredJob2 ==
    [company |-> sDataInc, role |-> sEngineer, location |-> sGo, link |-> sScraper,
     date_posted |-> sSQL, original_category |-> sIntern]

Answers == {sYes, sYesPadded, sNo, sY}

InitFlow ==
    /\ files \in {fs \in Stores : DOMAIN fs \subseteq {"alice"}}
    /\ pLast = NoCall
    /\ session = NoSession
    /\ jobs = InsertJobsResult(<<>>, <<StoredJob, StoredJob2>>).rows
    /\ dbLast = NoCall
    /\ writers = NoWriters
    /\ tIn = NoCall
    /\ tOut = NoCall

NextFlow ==
    \E j \in 1..Len(jobs), a \in Answers, c \in ConvertOutcomes, p \in PdfOutcomes :
        DoExecuteApplicationFlow("alice", j, a, c, p)

SpecFlow == InitFlow /\ [][NextFlow]_vars

(***************************************************************************)
(* The interactive session: main() of src/main.py                          *)
(*                                                                         *)
(* session.pc is "start" before the profile is chosen, "menu" while the    *)
(* main menu is shown, "returned" after main returned, and "raised" after  *)
(* an exception left main (there is a finally clause but no except).       *)
(***************************************************************************)
\* session.open is the set of storage connections that are open: db and
\* selector are opened before the loop; every ApplicationWorkflow opens its own.
MainConnections == {"db", "selector"}

\* finally: db.close(); selector.close()
Finally(open) == open \ MainConnections

\* ApplicationWorkflow.__init__ opens a connection; workflow.close() closes it.
WorkflowOpened(open) == open \cup {"workflow"}

WorkflowClosed(open) == open \ {"workflow"}

AtMenu(profile, choice) ==
    [pc |-> "menu", profile |-> profile, choice |-> choice, exc |-> None,
     open |-> MainConnections]

\* main returned: before any connection was opened (open = {}), or by the
\* break of choice '4', through the finally clause.
Returned(profile, choice, open) ==
    [pc |-> "returned", profile |-> profile, choice |-> choice, exc |-> None,
     open |-> open]

\* An exception left the loop, through the finally clause.
RaisedFrom(profile, choice, exc, open) ==
    [pc |-> "raised", profile |-> profile, choice |-> choice, exc |-> exc,
     open |-> Finally(open)]

\* The most rows an interactive session is followed to.
MaxSessionRows == 2

\* select_or_create_profile returns n, a listed profile (create = FALSE) or
\* one just created; then load_profile(n) decides whether main goes on.
MainSelectProfile(n, create) ==
    /\ session.pc = "start"
    /\ LET c == CreateNewProfile(files, n, NoData)
           fs == IF create THEN c.files ELSE files
       IN  /\ IF create THEN c.ok ELSE n \in DOMAIN files
           /\ files' = fs
           /\ session' = IF LoadProfile(fs, n).error # None
                          THEN Returned(n, "profile-load", {})
                          ELSE AtMenu(n, "none")
    /\ UNCHANGED <<writers, dbVars, engineVars, pLast>>

\* Choice '1': scrape, and when jobs came back categorize and insert them.
MainScrape(fetched) ==
    /\ session.pc = "menu"
    /\ LET scraped == GetJobs(fetched)
           categorized == CategorizeJobs(scraped.jobs, LoadProfile(files, session.profile),
                                         DefaultHighThreshold, DefaultMediumThreshold)
           inserted == InsertJobsResult(jobs, categorized.jobs)
       IN  IF scraped.raised # None
           THEN /\ session' = RaisedFrom(session.profile, "1", scraped.raised, session.open)
                /\ UNCHANGED jobs
           ELSE IF scraped.jobs = <<>>
           THEN /\ session' = AtMenu(session.profile, "1")
                /\ UNCHANGED jobs
           ELSE IF categorized.raised # None
           THEN /\ session' = RaisedFrom(session.profile, "1", categorized.raised, session.open)
                /\ UNCHANGED jobs
           ELSE /\ Len(jobs) + Len(categorized.jobs) <= MaxSessionRows
                /\ jobs' = inserted.rows
                /\ session' = IF inserted.raised
                               THEN RaisedFrom(session.profile, "1", "IntegrityError", session.open)
                               ELSE AtMenu(session.profile, "1")
    /\ UNCHANGED <<writers, dbLast, engineVars, profileVars>>

\* Choice '2' with an empty table, or 'q' at the selection prompt.
MainNoJobSelected ==
    /\ session.pc = "menu"
    /\ session' = AtMenu(session.profile, "2")
    /\ UNCHANGED <<writers, dbVars, engineVars, profileVars>>

\* Choice '2' with row j selected: the application flow runs on it.
MainApply(j, answer, convert, pdf) ==
    /\ session.pc = "menu"
    /\ j \in 1..Len(jobs)
    /\ LET r == ExecuteApplicationFlow(files, jobs, session.profile, jobs[j],
                                       answer, convert, pdf)
       IN  /\ jobs' = r.rows
           /\ session' = IF r.raised # None
                          THEN RaisedFrom(session.profile, "2", r.raised,
                                          WorkflowOpened(session.open))
                          ELSE [AtMenu(session.profile, "2") EXCEPT
                                   !.open = WorkflowClosed(WorkflowOpened(session.open))]
    /\ UNCHANGED <<writers, dbLast, engineVars, profileVars>>

\* Choice '3': the profile manager's menu, where profile n is edited.
MainManageProfiles(n, typed) ==
    /\ session.pc = "menu"
    /\ files' = EditProfile(files, n, typed).files
    /\ session' = AtMenu(session.profile, "3")
    /\ UNCHANGED <<writers, dbVars, engineVars, pLast>>

\* Outside the program, while the menu waits for input: the file of the
\* selected profile is removed, or overwritten with text that is not JSON,
\* so that load_profile returns an error from then on.  No choice has been
\* taken since.
ProfileFileLost(how) ==
    /\ session.pc = "menu"
    /\ session.profile \in DOMAIN files
    /\ files' = IF how = "removed"
                THEN [n \in DOMAIN files \ {session.profile} |-> files[n]]
                ELSE WriteFile(files, session.profile, Malformed)
    /\ session' = AtMenu(session.profile, "none")
    /\ UNCHANGED <<writers, dbVars, engineVars, pLast>>

\* Choice '4'.
MainExit ==
    /\ session.pc = "menu"
    /\ session' = Returned(session.profile, "4", Finally(session.open))
    /\ UNCHANGED <<writers, dbVars, engineVars, profileVars>>

\* Any other choice.
MainInvalidChoice ==
    /\ session.pc = "menu"
    /\ session' = AtMenu(session.profile, "other")
    /\ UNCHANGED <<writers, dbVars, engineVars, profileVars>>

GoodTable ==
    [category |-> "Software", thead |-> TRUE, headers |-> Headers3, tbody |-> TRUE,
     rows |-> <<Row1>>]

NoHeadTable ==
    [category |-> None, thead |-> FALSE, headers |-> <<>>, tbody |-> TRUE,
     rows |-> <<Row1>>]

NoLinkTable ==
    [category |-> None, thead |-> TRUE, headers |-> LocHeaders, tbody |-> TRUE,
     rows |-> <<LocRowCount>>]

SessionFetches ==
    {FetchFailed, Html(<<GoodTable>>), Html(<<NoLinkTable>>), Html(<<GoodTable, NoHeadTable>>)}

InitMain ==
    /\ files \in {fs \in Stores : DOMAIN fs \subseteq {"alice"}}
    /\ jobs = <<>>
    /\ dbLast = NoCall
    /\ writers = NoWriters
    /\ tIn = NoCall
    /\ tOut = NoCall
    /\ pLast = NoCall
    /\ session = [pc |-> "start", profile |-> None, choice |-> None, exc |-> None,
                  open |-> {}]

NextMain ==
    \/ \E n \in {"alice"}, create \in BOOLEAN : MainSelectProfile(n, create)
    \/ \E f \in SessionFetches : MainScrape(f)
    \/ MainNoJobSelected
    \/ \E j \in 1..MaxSessionRows, a \in {sYes, sNo}, c \in ConvertOutcomes,
          p \in {"ok", "OSError"} : MainApply(j, a, c, p)
    \/ \E typed \in {Cancel, JsonDump(Obj(ProfileA)), JsonDump(Obj(ProfileC))} :
          MainManageProfiles("alice", typed)
    \/ MainExit
    \/ MainInvalidChoice

SpecMain == InitMain /\ [][NextMain]_vars

\* A session in which the file of the selected profile may be lost between
\* two choices, and choice '1' is taken before and after.
InitLost ==
    /\ files \in {fs \in Stores : DOMAIN fs \subseteq {"alice"}}
    /\ jobs = <<>>
    /\ dbLast = NoCall
    /\ writers = NoWriters
    /\ tIn = NoCall
    /\ tOut = NoCall
    /\ pLast = NoCall
    /\ session = [pc |-> "start", profile |-> None, choice |-> None, exc |-> None,
                  open |-> {}]

NextLost ==
    \/ \E n \in {"alice"}, create \in BOOLEAN : MainSelectProfile(n, create)
    \/ \E f \in SessionFetches : MainScrape(f)
    \/ \E how \in {"removed", "malformed"} : ProfileFileLost(how)
    \/ MainInvalidChoice
    \/ MainExit

SpecLost == InitLost /\ [][NextLost]_vars

(***************************************************************************)
(* Claims.                                                                 *)
(***************************************************************************)

\* C1: after any sequence of insert_jobs calls from an empty store, no two
\* stored records have the same (link, role) pair.  Stated for the pairs
\* whose link and role are both set (not NULL), where "the same" is beyond
\* dispute.
C1_NoDuplicateLinkRole ==
    \A i \in 1..Len(jobs), k \in 1..Len(jobs) :
        (i < k /\ jobs[i]["link"] # None /\ jobs[i]["role"] # None)
            => RowPair(jobs[i]) # RowPair(jobs[k])

\* C2: insert_jobs returns the number of records it added, and a call whose
\* jobs all have their (link, role) pair stored already adds nothing and
\* returns 0.
C2_InsertCountAndNoOp ==
    (dbLast.op = "insert_jobs" /\ dbLast.returned) =>
        /\ dbLast.count = Len(jobs) - dbLast.before
        /\ dbLast.allStored => (dbLast.count = 0 /\ Len(jobs) = dbLast.before)

\* C3: _calculate_keyword_score(T, K) is the number of elements of K whose
\* lowercase form occurs in the lowercased joined text of T; it is not
\* negative and the same for every permutation of K.
OccursIn(needle, hay) ==
    \E a \in 0..Len(hay), b \in 0..Len(hay) : a <= b /\ SubSeq(hay, a + 1, b) = needle

C3_ScoreIsContainmentCount ==
    (tIn.op = "score" /\ tOut # Pending) =>
        LET T == tIn.text_list
            K == tIn.keywords
            text == Lower(Join(<<" ">>, T))
            hits == {i \in 1..Len(K) : OccursIn(Lower(K[i]), text)}
        IN  /\ tOut.score = Cardinality(hits)
            /\ tOut.score >= 0
            /\ \A f \in Permutations(1..Len(K)) :
                  CalculateKeywordScore(T, [i \in 1..Len(K) |-> K[f[i]]]) = tOut.score

\* A score call with an upper-case keyword that matches mixed-case text, and
\* a keyword that does not match.
C3_Witness ==
    /\ tIn.op = "score" /\ tOut # Pending
    /\ tIn.text_list = <<sPython, sSQL>>
    /\ tIn.keywords = <<sSQL, Lower(sJava), sOnSq>>
    /\ tOut.score = 2

\* C4 as stated: >= high gives High Fit, medium <= score < high gives Medium
\* Fit, score < medium gives Low Fit, for every pair of thresholds.
C4_CategoryByThresholds ==
    (tIn.op = "categorize" /\ tOut # Pending /\ tOut.raised = None) =>
        \A i \in 1..Len(tOut.jobs) :
            LET score == tOut.jobs[i]["fit_score"]
                cat == tOut.jobs[i]["fit_category"]
                high == tIn.high_threshold
                medium == tIn.medium_threshold
            IN  /\ score >= high => cat = "High Fit"
                /\ (medium <= score /\ score < high) => cat = "Medium Fit"
                /\ score < medium => cat = "Low Fit"

\* C4 amended: Low Fit is the category of a score below both thresholds.
C4_CategoryByThresholdsAmended ==
    (tIn.op = "categorize" /\ tOut # Pending /\ tOut.raised = None) =>
        /\ Len(tOut.jobs) = (IF tOut.constructed THEN Len(tIn.jobs_list) ELSE 0)
        /\ \A i \in 1..Len(tOut.jobs) :
            LET score == tOut.jobs[i]["fit_score"]
                cat == tOut.jobs[i]["fit_category"]
                high == tIn.high_threshold
                medium == tIn.medium_threshold
            IN  /\ score >= high => cat = "High Fit"
                /\ (medium <= score /\ score < high) => cat = "Medium Fit"
                /\ (score < medium /\ score < high) => cat = "Low Fit"

\* Two jobs categorized with the default thresholds: one scoring exactly the
\* high threshold, one between the thresholds.
C4_Witness ==
    /\ tIn.op = "categorize" /\ tOut # Pending /\ tOut.raised = None
    /\ tIn.high_threshold = DefaultHighThreshold
    /\ tIn.medium_threshold = DefaultMediumThreshold
    /\ Len(tOut.jobs) = 2
    /\ tOut.jobs[1]["fit_score"] = tIn.high_threshold
    /\ tOut.jobs[1]["fit_category"] = "High Fit"
    /\ tOut.jobs[2]["fit_score"] > tIn.medium_threshold
    /\ tOut.jobs[2]["fit_category"] = "Medium Fit"

ExpScore(exp, job_description) ==
    CalculateKeywordScore(ExpText(exp), ExtractKeywords(job_description))

\* C5: tailor_resume returns a work_experience list holding every entry with
\* score > 0, by score descending, equal scores in their original order; with
\* 3 or fewer entries in the profile all of them are in the result.
C5_WorkExperienceTailored ==
    (tIn.op = "tailor" /\ tOut # Pending) =>
        /\ tOut.raised = None
        /\ LET work == tIn.profile_data["work_experience"]
               out == tOut.tailored_resume.work_experience
               jd == tIn.job_description
           IN  \E f \in [1..Len(out) -> 1..Len(work)] :
                 /\ \A a \in 1..Len(out) : out[a] = work[f[a]]
                 /\ \A a \in 1..Len(out), b \in 1..Len(out) : a # b => f[a] # f[b]
                 /\ \A a \in 1..Len(out), b \in 1..Len(out) :
                       a < b => \/ ExpScore(out[a], jd) > ExpScore(out[b], jd)
                                \/ /\ ExpScore(out[a], jd) = ExpScore(out[b], jd)
                                   /\ f[a] < f[b]
                 /\ \A i \in 1..Len(work) :
                       (ExpScore(work[i], jd) > 0 \/ Len(work) <= KeepAllWork)
                           => \E a \in 1..Len(out) : f[a] = i

\* C6: with more than 3 work-experience entries, none containing a job
\* keyword, tailor_resume completes with an empty work_experience list.
C6_LongListNoMatchGivesEmpty ==
    (/\ tIn.op = "tailor" /\ tOut # Pending
     /\ Len(tIn.profile_data["work_experience"]) > KeepAllWork
     /\ \A i \in 1..Len(tIn.profile_data["work_experience"]) :
           ExpScore(tIn.profile_data["work_experience"][i], tIn.job_description) = 0)
    => (tOut.raised = None /\ tOut.tailored_resume.work_experience = <<>>)

HasSkill(profile_data) ==
    \E c \in 1..Len(profile_data["skills"]) : Len(profile_data["skills"][c][2]) > 0

\* C7: for a profile with at least one skill, tailor_resume returns a skills
\* mapping that lists, per category, the skills of the profile, those that
\* contain a job keyword before those that contain none, the latter in their
\* original order.
C7_MatchingSkillsFirst ==
    (tIn.op = "tailor" /\ tOut # Pending /\ HasSkill(tIn.profile_data)) =>
        /\ tOut.raised = None
        /\ \A c \in 1..Len(tIn.profile_data["skills"]) :
              LET cat == tIn.profile_data["skills"][c][1]
                  orig == tIn.profile_data["skills"][c][2]
                  kws == ExtractKeywords(tIn.job_description)
                  rest == SelectSeq(orig, LAMBDA sk : ~SkillMatches(sk, kws))
              IN  /\ cat \in DOMAIN tOut.tailored_resume.skills
                  /\ LET out == tOut.tailored_resume.skills[cat] IN
                     /\ Len(out) = Len(orig)
                     /\ \A a \in 1..Len(out), b \in 1..Len(out) :
                           (SkillMatches(out[b], kws) /\ ~SkillMatches(out[a], kws))
                               => b < a
                     /\ SelectSeq(out, LAMBDA sk : ~SkillMatches(sk, kws)) = rest

\* C8: a profile that is missing, schema-invalid or malformed makes the
\* construction of ResumeTailor fail, and then categorize_jobs and
\* execute_application_flow score nothing, tailor nothing and update no status.
C8_UnloadableProfileStopsEngine ==
    (/\ pLast.op \in {"categorize_jobs", "execute_application_flow"}
     /\ pLast.kind \in {"missing", "schema-invalid", "malformed"})
    => (/\ ~pLast.constructed
        /\ ~pLast.scored
        /\ ~pLast.tailored
        /\ pLast.status = None)

\* C9: save_profile with data that fails validation returns failure and
\* leaves the store as it was: no file appears, no file changes.
C9_InvalidSaveWritesNothing ==
    (/\ pLast.op \in {"save_profile", "create_new_profile", "edit_profile"}
     /\ pLast.save_arg # NoSave
     /\ ~ValidateProfile(pLast.save_arg))
    => (~pLast.ok /\ files = pLast.before)

\* save_profile refused invalid data for a name whose file holds a valid
\* profile, while another name has no file.
C9_Witness ==
    /\ pLast.op = "save_profile"
    /\ pLast.save_arg = Obj(InvalidProfile)
    /\ FileKind(pLast.before, pLast.name) = "valid"
    /\ DOMAIN files = {pLast.name}
    /\ ~pLast.ok

\* C10: create_new_profile for a name that has a file fails and leaves the
\* file as it is, whatever the file holds.
C10_CreateNeverReplaces ==
    (pLast.op = "create_new_profile" /\ pLast.name \in DOMAIN pLast.before)
    => (~pLast.ok /\ files = pLast.before)

FlowDone == pLast.op = "execute_application_flow"

SelectedStatus == jobs[pLast.selected]["status"]

\* C12 as stated: render and 'resume_tailored' only after the answer exactly
\* 'yes'; on any other answer no render, 'tailoring_rejected', returns False.
C12_ApprovalGateExact ==
    (FlowDone /\ pLast.prompted) =>
        /\ (pLast.rendered \/ SelectedStatus = "resume_tailored")
              => pLast.answer = sYes
        /\ pLast.answer # sYes =>
              /\ ~pLast.rendered
              /\ SelectedStatus = "tailoring_rejected"
              /\ pLast.ret = "False"

\* C12 amended: the answer counts as 'yes' when it is 'yes' after lowercasing
\* and stripping surrounding whitespace.
C12_ApprovalGate ==
    (FlowDone /\ pLast.prompted) =>
        /\ (pLast.rendered \/ pLast.status = "resume_tailored")
              => Strip(Lower(pLast.answer)) = sYes
        /\ Strip(Lower(pLast.answer)) # sYes =>
              /\ ~pLast.rendered
              /\ pLast.status = "tailoring_rejected"
              /\ SelectedStatus = "tailoring_rejected"
              /\ pLast.ret = "False"

\* The prompt was answered " Yes " and the render ran; and a run where it was
\* answered "y" is the other case, seen through the theorem.
C12_Witness ==
    /\ FlowDone /\ pLast.prompted
    /\ pLast.answer = sYesPadded
    /\ pLast.rendered
    /\ SelectedStatus = "resume_tailored"
    /\ pLast.status_before = "tailoring_rejected"

\* The renderer's outcome in the last run of the flow.
LastRender == RenderMarkdownToPdf(pLast.convert, pLast.pdf)

RenderSucceeded == pLast.convert = "ok" /\ pLast.pdf = "ok"

\* C13: a run of the flow that reaches the render step leaves the selected
\* job's status 'resume_tailored' when rendering succeeded and
\* 'pdf_render_failed' when it failed.
C13_RenderSetsStatus ==
    (FlowDone /\ pLast.rendered) =>
        /\ RenderSucceeded => SelectedStatus = "resume_tailored"
        /\ ~RenderSucceeded => SelectedStatus = "pdf_render_failed"

\* C16: render_markdown_to_pdf never raises; every failure of a step comes
\* back as (False, message), and the message for a missing toolchain
\* (FileNotFoundError) tells how to install it.
C16_RendererNeverRaises ==
    (FlowDone /\ pLast.rendered) =>
        /\ LastRender.raised = None
        /\ ~RenderSucceeded => (~LastRender.success /\ LastRender.message # None)
        /\ pLast.pdf = "FileNotFoundError" => LastRender.message = MsgInstall

\* The document of the call holds a table that lacks its thead or its tbody.
HasBrokenTable ==
    /\ tIn.fetched.kind = "text"
    /\ \E t \in 1..Len(tIn.fetched.tables) :
          ~tIn.fetched.tables[t].thead \/ ~tIn.fetched.tables[t].tbody

\* C15: get_jobs never raises; on a network failure and on a parse failure
\* (a table without header section or without body) it returns the empty list.
C15_GetJobsNeverRaises ==
    (tIn.op = "get_jobs" /\ tOut # Pending) =>
        /\ tOut.raised = None
        /\ (tIn.fetched.kind = "RequestException" \/ HasBrokenTable) => tOut.jobs = <<>>

\* C14: once the menu loop is entered no failure of a component operation
\* ends the session: main never ends by an exception, and it returns only on
\* choice '4' or, before the loop, on a profile-load failure.
C14_SessionSurvivesFailures ==
    /\ session.pc # "raised"
    /\ session.pc = "returned" => session.choice \in {"4", "profile-load"}

\* Keywords with later repetitions removed.
RECURSIVE Dedup(_)
Dedup(keywords) ==
    IF Len(keywords) = 0 THEN <<>>
    ELSE LET init == Dedup(SubSeq(keywords, 1, Len(keywords) - 1))
             last == keywords[Len(keywords)]
         IN  IF \E i \in 1..Len(init) : init[i] = last THEN init ELSE Append(init, last)

\* C17: the score of a text list against the keywords extracted from a job
\* description equals the score against those keywords without duplicates.
C17_DuplicatesDoNotCount ==
    (tIn.op = "score_description" /\ tOut # Pending) =>
        tOut.score = CalculateKeywordScore(tIn.text_list, Dedup(tOut.keywords))

\* Number of keyword positions whose keyword occurs in the lowercased text.
Hits(text_list, keywords) ==
    Cardinality({i \in 1..Len(keywords) :
                    OccursIn(Lower(keywords[i]), Lower(Join(<<" ">>, text_list)))})

RECURSIVE SumHits(_, _, _)
SumHits(texts, keywords, n) ==
    IF n = 0 THEN 0 ELSE Hits(texts[n], keywords) + SumHits(texts, keywords, n - 1)

\* description + technologies of an entry, an absent key counting as empty.
DescTech(entry) ==
    (IF "description" \in DOMAIN entry THEN entry["description"] ELSE <<>>)
        \o (IF "technologies" \in DOMAIN entry THEN entry["technologies"] ELSE <<>>)

RoleAndCompany(job) ==
    LET role == IF "role" \in DOMAIN job THEN <<job["role"]>> ELSE <<>>
        company == IF "company" \in DOMAIN job THEN <<job["company"]>> ELSE <<>>
    IN  Join(<<" ">>, role \o company)

\* C18: the fit_score of a categorized job is the sum, against the keywords of
\* its role and company, of the keyword scores of every skills category's
\* list, every work entry's description + technologies and every project's
\* description + technologies; titles, companies and names of the profile
\* add nothing.
C18_FitScoreComposition ==
    (tIn.op = "categorize" /\ tOut # Pending /\ tOut.raised = None /\ tOut.constructed) =>
        \A i \in 1..Len(tOut.jobs) :
            LET p == tIn.loaded.data.d
                kw == ExtractKeywords(RoleAndCompany(tIn.jobs_list[i]))
                skills == [c \in 1..Len(p["skills"]) |-> p["skills"][c][2]]
                work == [e \in 1..Len(p["work_experience"]) |->
                            DescTech(p["work_experience"][e])]
                projects == [e \in 1..Len(p["projects"]) |-> DescTech(p["projects"][e])]
            IN  tOut.jobs[i]["fit_score"] =
                    SumHits(skills, kw, Len(skills)) + SumHits(work, kw, Len(work))
                        + SumHits(projects, kw, Len(projects))

\* Job "Python SQL Engineer" at Acme against a profile whose first work entry
\* is titled Engineer at Acme: the score counts python and sql in the skills,
\* the entry's description and technologies and the project, not the title.
C18_Witness ==
    /\ tIn.op = "categorize" /\ tOut # Pending /\ tOut.raised = None
    /\ tIn.loaded = Loaded(ProfileA)
    /\ Len(tOut.jobs) >= 1
    /\ tIn.jobs_list[1] = Job1
    /\ tOut.jobs[1]["fit_score"] = 5

ProjScore(proj, job_description) ==
    CalculateKeywordScore(ProjText(proj), ExtractKeywords(job_description))

\* C19: tailor_resume returns a projects list holding every project with
\* score > 0, by score descending and stable; when no project scores > 0 it
\* is all projects for 2 or fewer and empty for 3 or more.
C19_ProjectsTailored ==
    (tIn.op = "tailor" /\ tOut # Pending /\ Len(tIn.profile_data["projects"]) > 0) =>
        /\ tOut.raised = None
        /\ LET projects == tIn.profile_data["projects"]
               out == tOut.tailored_resume.projects
               jd == tIn.job_description
           IN  \E f \in [1..Len(out) -> 1..Len(projects)] :
                 /\ \A a \in 1..Len(out) : out[a] = projects[f[a]]
                 /\ \A a \in 1..Len(out), b \in 1..Len(out) : a # b => f[a] # f[b]
                 /\ \A a \in 1..Len(out), b \in 1..Len(out) :
                       a < b => \/ ProjScore(out[a], jd) > ProjScore(out[b], jd)
                                \/ /\ ProjScore(out[a], jd) = ProjScore(out[b], jd)
                                   /\ f[a] < f[b]
                 /\ \A i \in 1..Len(projects) :
                       (ProjScore(projects[i], jd) > 0 \/ Len(projects) <= KeepAllProjects)
                           <=> \E a \in 1..Len(out) : f[a] = i

RECURSIVE Reverse(_)
Reverse(list) ==
    IF Len(list) = 0 THEN <<>> ELSE Append(Reverse(Tail(list)), Head(list))

\* A category of the profile with two or more skills containing a job keyword.
TwoMatches(c) ==
    Len(SelectSeq(tIn.profile_data["skills"][c][2],
                  LAMBDA sk : SkillMatches(sk, ExtractKeywords(tIn.job_description)))) >= 2

\* C20: when a category holds two or more skills that contain a job keyword,
\* tailor_resume returns them at the front of the category's list in the
\* reverse of their original order.
C20_MatchesReversed ==
    (/\ tIn.op = "tailor" /\ tOut # Pending
     /\ \E c \in 1..Len(tIn.profile_data["skills"]) : TwoMatches(c))
    => /\ tOut.raised = None
       /\ \A c \in 1..Len(tIn.profile_data["skills"]) :
             TwoMatches(c) =>
               LET cat == tIn.profile_data["skills"][c][1]
                   kws == ExtractKeywords(tIn.job_description)
                   matching == SelectSeq(tIn.profile_data["skills"][c][2],
                                         LAMBDA sk : SkillMatches(sk, kws))
               IN  /\ cat \in DOMAIN tOut.tailored_resume.skills
                   /\ SubSeq(tOut.tailored_resume.skills[cat], 1, Len(matching))
                         = Reverse(matching)

\* C21: when main has returned or let an exception out, every storage
\* connection opened during the session (the main JobDatabase, the
\* JobSelector's, the one of each ApplicationWorkflow) has been closed.
C21_ConnectionsClosed ==
    session.pc \in {"returned", "raised"} => session.open = {}

\* The fields of a stored record other than status.
OtherFields == (Columns \cup {"id"}) \ {"status"}

\* C22: update_job_status(job_id, s) changes only the status field of the
\* record whose id is job_id: the number and order of records, every other
\* record and every other field of that record stay as they were, a job_id
\* that matches no record changes nothing; and no repository operation
\* (insert_jobs, update_job_status, update_job_fit_score_and_category)
\* removes a record.
C22_UpdateStatusFrame ==
    [][ /\ Len(jobs') >= Len(jobs)
        /\ \A i \in 1..Len(jobs) : jobs'[i]["id"] = jobs[i]["id"]
        /\ dbLast'.op = "update_job_status" =>
              /\ Len(jobs') = Len(jobs)
              /\ \A i \in 1..Len(jobs) :
                    /\ \A c \in OtherFields : jobs'[i][c] = jobs[i][c]
                    /\ jobs'[i]["status"] =
                          IF jobs[i]["id"] = dbLast'.job_id
                          THEN dbLast'.new_status ELSE jobs[i]["status"]
              /\ (\A i \in 1..Len(jobs) : jobs[i]["id"] # dbLast'.job_id)
                    => jobs' = jobs
      ]_vars

\* update_job_status has just set the status of one of several records,
\* another of which has a different status and a fit already updated.
C22_Witness ==
    /\ dbLast.op = "update_job_status"
    /\ dbLast.new_status = "resume_tailored"
    /\ Len(jobs) >= 2
    /\ \E i, k \in 1..Len(jobs) :
          /\ jobs[i]["id"] = dbLast.job_id
          /\ jobs[i]["status"] = "resume_tailored"
          /\ jobs[i]["fit_category"] = "High Fit"
          /\ k # i
          /\ jobs[k]["status"] = "new"

\* The selected profile cannot be loaded.
ProfileLost == LoadProfile(files, session.profile).error # None

\* What categorize_jobs is handed for fetch f, when the scrape returns jobs.
CategorizedFor(f) ==
    CategorizeJobs(GetJobs(f).jobs, LoadProfile(files, session.profile),
                   DefaultHighThreshold, DefaultMediumThreshold)

InsertedBy(p, id) == \E e \in writers[p].log : e.id = id

SeenFor(p, id) == (CHOOSE e \in writers[p].log : e.id = id).seen

\* C24: with two processes each running insert_jobs on the same store for
\* jobs with the same (link, role), the check before each insert gives
\* uniqueness only under a single writer: two stored records share
\* (link, role) only when they were inserted by different processes and the
\* duplicate check for the later one ran before the earlier one was
\* inserted.  (That such an interleaving exists is C24_Witness.)
C24_DuplicatesOnlyByInterleaving ==
    \A i, k \in 1..Len(jobs) :
        (i < k /\ RowPair(jobs[i]) = RowPair(jobs[k])) =>
            \E p, q \in Writers :
                /\ p # q
                /\ InsertedBy(p, i)
                /\ InsertedBy(q, k)
                /\ SeenFor(q, k) < i

\* Both processes are done, each ran its first duplicate check on the empty
\* store and inserted, and two records with the same (link, role) are stored.
C24_Witness ==
    /\ \A p \in Writers : writers[p].pc = "done" /\ InsertedBy(p, p)
    /\ InsertedBy(1, 1) /\ SeenFor(1, 1) = 0
    /\ InsertedBy(2, 2) /\ SeenFor(2, 2) = 0
    /\ RowPair(jobs[1]) = RowPair(jobs[2])
    /\ RowPair(jobs[1]) = <<sL1, sR1>>

====
